---------------------------- MODULE Spec2Model ----------------------------
(***************************************************************************)
(* The two Streamlit dashboard scripts of Energy_Trading:                  *)
(*   Energy_Trading_Assistant_Complete.py   ("Complete", tabs 0..8)        *)
(*   main_energy_trading_assistant.py       ("Main",     tabs 0..10)       *)
(* One run of a script executes its tabs top to bottom.  An exception that *)
(* no try/except of the script catches leaves the script: Streamlit shows  *)
(* the traceback and the tabs below are not executed in that run.          *)
(*                                                                         *)
(* pandas is modelled by what it does on the values the scripts hand it:   *)
(*   read_csv      raises EmptyDataError on a stream with nothing to parse *)
(*                 (a zero-byte file, or a handle left at its end), and    *)
(*                 returns a zero-row frame for a header-only file;        *)
(*   iloc[:, k]    raises IndexError when the frame has no column k;       *)
(*   df[c] = s     aligns the Series s on the frame's index: labels the    *)
(*                 Series lacks become NaN, labels the frame lacks are     *)
(*                 dropped; a frame with an empty index takes the index of *)
(*                 a non-empty Series;                                     *)
(*   a / b         is float division: x/0 is inf, -inf or NaN, not an      *)
(*                 exception.                                              *)
(* Floats are kept as exact fractions n/d (rounding is not modelled).      *)
(* Headings (st.subheader, "###" lines) are not modelled; every other      *)
(* widget a tab shows is an event of its log.                              *)
(***************************************************************************)
EXTENDS Integers, Sequences, FiniteSets, TLC

VARIABLES
    script,           \* which script runs: "Complete" or "Main"
    forecast_file,    \* the five uploads (content; fixed during a run)
    actual_file,
    regulation_file,
    trade_file,
    contract_file,
    stream,           \* per upload handle: position and the seeks/reads so far
    pc,               \* index of the next tab to execute
    log,              \* what the tab executed last did, in order
    exc,              \* exception that left the tab executed last ("none")
    df_combined,      \* Forecast Deviation's combined frame (last computed)
    df_accuracy       \* Forecast Accuracy's frame (last computed)

vars == <<script, forecast_file, actual_file, regulation_file, trade_file,
          contract_file, stream, pc, log, exc, df_combined, df_accuracy>>

uploads == <<forecast_file, actual_file, regulation_file, trade_file, contract_file>>

---------------------------------------------------------------------------
(* Bounds and input domains *)

\* largest number of data rows of an enumerated forecast / actual table
MaxRows == 2

\* value cells of the enumerated tables (MW)
Values == {0, 90, 100}

Regions == {"North", "South"}

Date == "2024-01-01"

Min(a, b) == IF a < b THEN a ELSE b

RECURSIVE SeqsUpTo(_, _)
\* all sequences over S of length 0..n
SeqsUpTo(S, n) ==
    IF n = 0 THEN {<<>>}
    ELSE LET shorter == SeqsUpTo(S, n - 1)
         IN  shorter \cup {Append(s, x) : s \in {t \in shorter : Len(t) = n - 1}, x \in S}

---------------------------------------------------------------------------
(* Uploaded files *)

NoFile == [kind |-> "absent", ncols |-> 0, rows |-> <<>>, len |-> 0]

\* a zero-byte CSV: nothing to parse, not even a header
EmptyBytes == [kind |-> "empty", ncols |-> 0, rows |-> <<>>, len |-> 0]

\* a CSV with a header of n columns and the data rows r (r = <<>>: header only)
Csv(n, r) == [kind |-> "csv", ncols |-> n, rows |-> r, len |-> 0]

\* a text upload of n characters; "badutf8": bytes that are not UTF-8
Text(n) == [kind |-> "text", ncols |-> 0, rows |-> <<>>, len |-> n]

BadText == [kind |-> "badutf8", ncols |-> 0, rows |-> <<>>, len |-> 0]

\* truthiness of an upload, as in `if forecast_file:`
Present(f) == f.kind # "absent"

FileNames == {"forecast_file", "actual_file", "regulation_file", "trade_file", "contract_file"}

Content(name) ==
    CASE name = "forecast_file"   -> forecast_file
      [] name = "actual_file"     -> actual_file
      [] name = "regulation_file" -> regulation_file
      [] name = "trade_file"      -> trade_file
      [] name = "contract_file"   -> contract_file

FreshStreams == [n \in FileNames |-> [pos |-> 0, ops |-> <<>>]]

---------------------------------------------------------------------------
(* Cells and floats *)

Cell(v) == [isna |-> FALSE, v |-> v]

NaNum == [isna |-> TRUE, v |-> 0]

NaStr == [isna |-> TRUE, v |-> ""]

\* a float as a fraction n/d, or one of the IEEE specials
Frac(n, d) == [k |-> "num", n |-> n, d |-> d]

FNaN == [k |-> "nan", n |-> 0, d |-> 1]

FInf == [k |-> "inf", n |-> 0, d |-> 1]

FNegInf == [k |-> "-inf", n |-> 0, d |-> 1]

\* variant: the rows taken last to first
Column_Reversed(t, k) ==
    [i \in 1..Len(t.rows) |-> Cell(t.rows[Len(t.rows) + 1 - i][k + 1])]

\* column k (0-based) of the data rows of a parsed CSV, as a Series of cells
Column(t, k) == [i \in 1..Len(t.rows) |-> Cell(t.rows[i][k + 1])]

\* DataFrame.head(k): the first k rows
head(s, k) == SubSeq(s, 1, Min(k, Len(s)))

---------------------------------------------------------------------------
(* Forecast vs actual: positional alignment and percent error *)

\* the actual value column: index 2, or index 1 for a frame of at most 2 columns
ActualSeries(df_actual) ==
    IF df_actual.ncols > 2 THEN Column(df_actual, 2) ELSE Column(df_actual, 1)

\* exception raised by the column selections of Forecast Deviation / Accuracy
ColumnsRaise(df_forecast, df_actual) ==
    IF df_forecast.ncols < 3 \/ df_actual.ncols < 2 THEN "IndexError" ELSE "none"

\* variant: an inner alignment, keeping only the labels both sides have
SetItemRows_Inner(n, series) == Min(n, Len(series))

\* number of rows of a frame of n rows after `frame[c] = series`
SetItemRows(n, series) ==
    IF n = 0 /\ Len(series) > 0 THEN Len(series) ELSE n

\* a column brought to m rows: labels it lacks become na
Reindex(col, m, na) ==
    [i \in 1..m |-> IF i <= Len(col) THEN col[i] ELSE na]

\* df_forecast.iloc[:, [0, 1, 2]].copy() with the 'Actual (MW)' column assigned
CombinedFrame(df_forecast, df_actual) ==
    LET series == ActualSeries(df_actual)
        m      == SetItemRows(Len(df_forecast.rows), series)
        c0     == Reindex(Column(df_forecast, 0), m, NaStr)
        c1     == Reindex(Column(df_forecast, 1), m, NaStr)
        c2     == Reindex(Column(df_forecast, 2), m, NaNum)
        actual == Reindex(series, m, NaNum)
    IN  [i \in 1..m |-> [c0 |-> c0[i], c1 |-> c1[i], c2 |-> c2[i], Actual |-> actual[i]]]

\* variant: a zero divisor replaced by 1 before dividing
TrueDiv_ZeroAsOne(num, den) == IF den # 0 THEN Frac(num, den) ELSE Frac(num, 1)

\* float division of integers: no exception on a zero divisor
TrueDiv(num, den) ==
    IF den # 0 THEN Frac(num, den)
    ELSE IF num > 0 THEN FInf
    ELSE IF num < 0 THEN FNegInf
    ELSE FNaN

\* a float times an integer
FMul(x, c) == IF x.k = "num" THEN Frac(x.n * c, x.d) ELSE x

\* variant: the subtraction reversed, Forecast - Actual
ErrorPct_Reversed(actual, forecast) ==
    IF actual.isna \/ forecast.isna THEN FNaN
    ELSE FMul(TrueDiv(forecast.v - actual.v, forecast.v), 100)

\* variant: the error taken relative to the actual value
ErrorPct_OverActual(actual, forecast) ==
    IF actual.isna \/ forecast.isna THEN FNaN
    ELSE FMul(TrueDiv(actual.v - forecast.v, actual.v), 100)

\* ((Actual - Forecast) / Forecast) * 100 for one row
ErrorPct(actual, forecast) ==
    IF actual.isna \/ forecast.isna THEN FNaN
    ELSE FMul(TrueDiv(actual.v - forecast.v, forecast.v), 100)

\* df_accuracy of Forecast Accuracy: Region, Forecast (MW), Actual (MW), Error (%)
AccuracyFrame(df_forecast, df_actual) ==
    LET region   == Column(df_forecast, 1)
        n1       == SetItemRows(0, region)
        fc       == Column(df_forecast, 2)
        series   == ActualSeries(df_actual)
        m        == SetItemRows(n1, series)
        Region   == Reindex(region, m, NaStr)
        Forecast == Reindex(fc, m, NaNum)
        Actual   == Reindex(series, m, NaNum)
    IN  [i \in 1..m |-> [Region   |-> Region[i],
                         Forecast |-> Forecast[i],
                         Actual   |-> Actual[i],
                         Error    |-> ErrorPct(Actual[i], Forecast[i])]]

---------------------------------------------------------------------------
(* What a tab does, in order: the events of `log` *)

Event == [e |-> "", f |-> "", w |-> "", msg |-> "", rows |-> <<>>,
          ok |-> TRUE, embeds |-> {}, chars |-> 0]

\* f.seek(0)
EvSeek(f) == [Event EXCEPT !.e = "seek", !.f = f]

\* pd.read_csv(f) or f.read(); ok: it returned
EvRead(f, ok) == [Event EXCEPT !.e = "read", !.f = f, !.ok = ok]

\* requests.get(url) ... ["result"]["records"]; msg: how it ended
EvFetch(outcome) == [Event EXCEPT !.e = "fetch", !.msg = outcome, !.ok = (outcome = "ok")]

\* client.chat.completions.create(...): the prompt's tag, the uploads and the
\* market rows it embeds, the contract characters it embeds; ok: it returned
EvRequest(tag, ok, embeds, rows, chars) ==
    [Event EXCEPT !.e = "request", !.msg = tag, !.ok = ok, !.embeds = embeds,
                  !.rows = rows, !.chars = chars]

\* st.<w>(...): a widget with its message, or the rows of the table it shows
EvShow(w, msg, rows) == [Event EXCEPT !.e = "show", !.w = w, !.msg = msg, !.rows = rows]

---------------------------------------------------------------------------
(* Statements of a tab, threaded through a context [stream, log, exc].     *)
(* Once exc is set, the statements after it are skipped, as Python skips   *)
(* the rest of a block after a raise.                                      *)

Begin == [stream |-> stream, log |-> <<>>, exc |-> "none"]

Raised(c) == c.exc # "none"

\* entering an except block: the exception is handled
Caught(c) == [c EXCEPT !.exc = "none"]

show(c, w, msg, rows) ==
    IF Raised(c) THEN c ELSE [c EXCEPT !.log = Append(@, EvShow(w, msg, rows))]

raise(c, kind) ==
    IF Raised(c) \/ kind = "none" THEN c ELSE [c EXCEPT !.exc = kind]

\* variant: the rewind left out
seek_Missing(c, f) == c

\* <file>.seek(0)
seek(c, f) ==
    IF Raised(c) THEN c
    ELSE [c EXCEPT !.stream[f] = [pos |-> 0, ops |-> Append(@.ops, "seek")],
                   !.log = Append(@, EvSeek(f))]

\* a read in the handle's history: from the start of the stream, or from further on
ReadOp(c, f) == IF c.stream[f].pos = 0 THEN "read" ELSE "read past start"

\* variant: a loader that returns an empty frame for a zero-byte file
NothingToParse_OnlyAtEnd(c, f) == c.stream[f].pos # 0

\* what pd.read_csv finds on the stream: nothing to parse, or the table
NothingToParse(c, f) == Content(f).kind = "empty" \/ c.stream[f].pos # 0

\* pd.read_csv(<file>): consumes the stream
read_csv(c, f) ==
    IF Raised(c) THEN c
    ELSE LET bad == NothingToParse(c, f)
         IN  [c EXCEPT !.stream[f] = [pos |-> 1, ops |-> Append(@.ops, ReadOp(c, f))],
                       !.log = Append(@, EvRead(f, ~bad)),
                       !.exc = IF bad THEN "EmptyDataError" ELSE "none"]

\* number of characters <file>.read() returns: the rest of the stream
TextLen(c, f) == IF c.stream[f].pos = 0 THEN Content(f).len ELSE 0

\* <file>.read().decode("utf-8"): consumes the stream
read_text(c, f) ==
    IF Raised(c) THEN c
    ELSE LET bad == Content(f).kind = "badutf8" /\ c.stream[f].pos = 0
         IN  [c EXCEPT !.stream[f] = [pos |-> 1, ops |-> Append(@.ops, ReadOp(c, f))],
                       !.log = Append(@, EvRead(f, ~bad)),
                       !.exc = IF bad THEN "UnicodeDecodeError" ELSE "none"]

\* variant: a failed request for the feed is made a second time
fetch_Retry(c, outcome) ==
    IF Raised(c) THEN c
    ELSE [c EXCEPT !.log = IF outcome = "ok"
                           THEN Append(@, EvFetch(outcome))
                           ELSE @ \o <<EvFetch(outcome), EvFetch(outcome)>>,
                   !.exc = IF outcome = "ok" THEN "none" ELSE outcome]

\* requests.get(url); response.json()["result"]["records"]
fetch(c, outcome) ==
    IF Raised(c) THEN c
    ELSE [c EXCEPT !.log = Append(@, EvFetch(outcome)),
                   !.exc = IF outcome = "ok" THEN "none" ELSE outcome]

\* resp = client.chat.completions.create(...); st.<w>(resp.choices[0].message.content)
narrate(c, w, tag, ok, embeds, rows, chars) ==
    IF Raised(c) THEN c
    ELSE IF ok
         THEN [c EXCEPT !.log = @ \o <<EvRequest(tag, TRUE, embeds, rows, chars),
                                        EvShow(w, "narrative", <<>>)>>]
         ELSE [c EXCEPT !.log = Append(@, EvRequest(tag, FALSE, embeds, rows, chars)),
                        !.exc = "OpenAIError"]

\* text[:k]
Truncate(n, k) == Min(n, k)

\* try: narrate(...)  except Exception as e: st.<errw>(errmsg)
TryNarrate(c, w, tag, ok, embeds, rows, chars, errw, errmsg) ==
    LET tried == narrate(c, w, tag, ok, embeds, rows, chars)
    IN  IF Raised(c) THEN c
        ELSE IF Raised(tried) THEN show(Caught(tried), errw, errmsg, <<>>)
        ELSE tried

\* try: <body>  except Exception as e: st.error(errmsg)
ExceptError(body, errmsg) ==
    IF Raised(body) THEN show(Caught(body), "error", errmsg, <<>>) ELSE body

---------------------------------------------------------------------------
(* Market feed *)

\* prices in hundredths of a pound per kWh
MarketFrame(regions, prices, volumes) ==
    [i \in 1..Len(regions) |->
        [Region |-> regions[i], Price |-> prices[i], Volume |-> volumes[i]]]

\* how a fetch can end: records, a network error, a response without result.records
FetchOutcomes == {"ok", "ConnectionError", "KeyError"}

\* numbers of records a successful fetch may carry
LiveCounts == {0, 1, 6}

\* the frame built from n fetched records
LiveFrame(n) == [i \in 1..n |-> [Region |-> "live", Price |-> i, Volume |-> i]]

Complete_fallback_df ==
    MarketFrame(<<"North", "South", "East", "West">>,
                <<12, 15, 14, 13>>,
                <<500, 700, 600, 450>>)

\* variant: the four-region table of the other script
Main_fallback_df_FourRegions ==
    MarketFrame(<<"North", "South", "East", "West">>,
                <<12, 15, 14, 13>>,
                <<500, 700, 600, 450>>)

Main_fallback_df ==
    MarketFrame(<<"North", "South", "East", "West", "Midlands", "Scotland", "Wales", "London">>,
                <<12, 15, 14, 13, 11, 16, 13, 17>>,
                <<500, 700, 600, 450, 520, 640, 580, 720>>)

\* Emerging Risks' simulated table
Complete_risk_fallback_df ==
    <<[Region |-> "North", Level |-> "High",   Signal |-> "Capacity risk"],
      [Region |-> "South", Level |-> "Medium", Signal |-> "Price spike"],
      [Region |-> "East",  Level |-> "Low",    Signal |-> "Stable"],
      [Region |-> "West",  Level |-> "Medium", Signal |-> "Congestion"]>>

\* Price/Volume Tracker's simulated trend
Main_tracker_fallback_df ==
    MarketFrame(<<"", "", "", "", "", "", "", "">>,
                <<12, 13, 15, 14, 16, 17, 15, 14>>,
                <<500, 620, 710, 640, 730, 760, 710, 690>>)

\* Forecast Accuracy's simulated table, with its Error (%) column
Main_fallback_data ==
    LET region   == <<"North", "South", "East", "West">>
        forecast == <<1200, 1400, 1300, 1250>>
        actual   == <<1150, 1450, 1280, 1230>>
    IN  [i \in 1..4 |-> [Region   |-> Cell(region[i]),
                         Forecast |-> Cell(forecast[i]),
                         Actual   |-> Cell(actual[i]),
                         Error    |-> ErrorPct(Cell(actual[i]), Cell(forecast[i]))]]

---------------------------------------------------------------------------
(* Running a script *)

NumTabs(s) == IF s = "Complete" THEN 9 ELSE 11

\* tab k of script s is the next to execute
AtTab(s, k) == script = s /\ pc = k /\ exc = "none"

\* the tab ends: what it did, and the exception that left it, if any
Commit(c, k) ==
    /\ stream' = c.stream
    /\ log' = c.log
    /\ exc' = c.exc
    /\ pc' = k + 1
    /\ UNCHANGED <<script, uploads>>

\* variant: the contract left out of the test
AllFour_NoContract ==
    /\ Present(forecast_file)
    /\ Present(actual_file)
    /\ Present(trade_file)

AllFour ==
    /\ Present(forecast_file)
    /\ Present(actual_file)
    /\ Present(trade_file)
    /\ Present(contract_file)

\* seek(0) on both, then read_csv on both (Forecast Deviation, Forecast Accuracy)
LoadForecastActual(c) ==
    read_csv(read_csv(seek(seek(c, "forecast_file"), "actual_file"),
                      "forecast_file"), "actual_file")

\* the four seeks of Trading Strategy
SeekAllFour(c) ==
    seek(seek(seek(seek(c, "forecast_file"), "actual_file"), "trade_file"), "contract_file")

\* its three read_csv; the contract read follows
ReadCsvThree(c) ==
    read_csv(read_csv(read_csv(c, "forecast_file"), "actual_file"), "trade_file")

StrategyEmbeds == {"forecast_file", "actual_file", "trade_file", "contract_file"}

\* the strategy block: seeks, reads, contract text cut to 1000, one request
StrategyBlock(c, tag, ok, market) ==
    LET csvs == ReadCsvThree(SeekAllFour(c))
        text == read_text(csvs, "contract_file")
    IN  narrate(text, "success", tag, ok, StrategyEmbeds, market,
                Truncate(TextLen(csvs, "contract_file"), 1000))

---------------------------------------------------------------------------
(* Energy_Trading_Assistant_Complete.py *)

Complete_OverviewTab == show(Begin, "markdown", "Application Overview", <<>>)

\* variant: the upload warning tied to the uploads, not to the try's else
Complete_MarketSummaryTab_WarnIfMissing(outcome, n, ok, ok2) ==
    LET market_df == LiveFrame(n)
        tried == narrate(show(fetch(Begin, outcome), "dataframe", "market_df",
                              head(market_df, 5)),
                         "info", "market summary", ok, {}, head(market_df, 10), 0)
        shown == show(show(Caught(tried), "warning",
                           "Could not fetch live market data. Displaying simulated fallback.",
                           <<>>),
                      "dataframe", "fallback_df", Complete_fallback_df)
        inner == narrate(shown, "info", "simulated market summary", ok2, {},
                         Complete_fallback_df, 0)
    IN  IF Raised(tried)
        THEN IF Raised(inner)
             THEN show(Caught(inner), "error", "GenAI fallback failed", <<>>)
             ELSE inner
        ELSE IF Present(forecast_file) /\ Present(actual_file)
             THEN tried
             ELSE show(tried, "warning", "Upload both forecast and actual files.", <<>>)

Complete_MarketSummaryTab(outcome, n, ok, ok2) ==
    LET market_df == LiveFrame(n)
        tried == narrate(show(fetch(Begin, outcome), "dataframe", "market_df",
                              head(market_df, 5)),
                         "info", "market summary", ok, {}, head(market_df, 10), 0)
        shown == show(show(Caught(tried), "warning",
                           "Could not fetch live market data. Displaying simulated fallback.",
                           <<>>),
                      "dataframe", "fallback_df", Complete_fallback_df)
        inner == narrate(shown, "info", "simulated market summary", ok2, {},
                         Complete_fallback_df, 0)
    IN  IF Raised(tried)
        THEN IF Raised(inner)
             THEN show(Caught(inner), "error", "GenAI fallback failed", <<>>)
             ELSE inner
        ELSE show(tried, "warning", "Upload both forecast and actual files.", <<>>)

\* the frame is built once both files are parsed and the columns exist
Complete_Combined ==
    LET loaded == raise(LoadForecastActual(Begin), ColumnsRaise(forecast_file, actual_file))
    IN  Present(forecast_file) /\ Present(actual_file) /\ ~Raised(loaded)

Complete_ForecastDeviationTab(ok) ==
    IF Present(forecast_file) /\ Present(actual_file)
    THEN LET loaded == raise(LoadForecastActual(Begin),
                             ColumnsRaise(forecast_file, actual_file))
             frame  == IF Raised(loaded) THEN <<>>
                       ELSE CombinedFrame(forecast_file, actual_file)
         IN  narrate(show(loaded, "dataframe", "df_combined", head(frame, 5)),
                     "info", "forecast deviation", ok,
                     {"forecast_file", "actual_file"}, <<>>, 0)
    ELSE show(Begin, "warning",
              "Upload both Forecast and Actual Generation CSVs to proceed.", <<>>)

Complete_RegulatoryAdvisoryTab(ok) ==
    IF Present(regulation_file)
    THEN LET loaded == read_csv(seek(Begin, "regulation_file"), "regulation_file")
         IN  narrate(show(loaded, "dataframe", "regulation_df",
                          head(regulation_file.rows, 5)),
                     "success", "regulatory advisory", ok, {"regulation_file"}, <<>>, 0)
    ELSE Begin

Complete_TradeLogTab(ok) ==
    IF Present(trade_file)
    THEN LET loaded == read_csv(seek(Begin, "trade_file"), "trade_file")
         IN  narrate(show(loaded, "dataframe", "trade_df", head(trade_file.rows, 5)),
                     "success", "trade log", ok, {"trade_file"}, <<>>, 0)
    ELSE Begin

Complete_ContractClauseTab(ok) ==
    IF Present(contract_file)
    THEN LET sought == seek(Begin, "contract_file")
         IN  narrate(read_text(sought, "contract_file"), "success", "contract clauses", ok,
                     {"contract_file"}, <<>>,
                     Truncate(TextLen(sought, "contract_file"), 1000))
    ELSE Begin

Complete_PriceForecastTab(ok, ok2) ==
    LET first ==
            IF Present(forecast_file)
            THEN narrate(show(read_csv(seek(Begin, "forecast_file"), "forecast_file"),
                              "dataframe", "price_df", <<>>),
                         "info", "price forecast", ok, {}, <<>>, 0)
            ELSE show(Begin, "warning",
                      "Upload Forecast Demand CSV to generate price forecast.", <<>>)
    IN  IF AllFour THEN StrategyBlock(first, "strategist", ok2, <<>>) ELSE first

Complete_EmergingRisksTab(outcome, n, ok, ok2) ==
    LET df    == LiveFrame(n)
        tried == narrate(show(fetch(Begin, outcome), "dataframe", "df", df),
                         "success", "emerging risks", ok, {}, head(df, 10), 0)
        shown == show(show(Caught(tried), "warning",
                           "Live API failed. Showing simulated risks.", <<>>),
                      "dataframe", "fallback_df", Complete_risk_fallback_df)
        inner == narrate(shown, "success", "fallback risk signals", ok2, {},
                         Complete_risk_fallback_df, 0)
    IN  IF Raised(tried)
        THEN IF Raised(inner)
             THEN show(Caught(inner), "error", "GenAI fallback failed", <<>>)
             ELSE inner
        ELSE tried

Complete_TradingStrategyTab(ok) ==
    IF AllFour
    THEN StrategyBlock(Begin, "trading strategy", ok, <<>>)
    ELSE show(Begin, "warning",
              "Please upload Forecast, Actual, Trade Log, and Contract files.", <<>>)

Complete_Overview ==
    /\ AtTab("Complete", 0)
    /\ Commit(Complete_OverviewTab, 0)
    /\ UNCHANGED <<df_combined, df_accuracy>>

Complete_MarketSummary ==
    /\ AtTab("Complete", 1)
    /\ \E outcome \in FetchOutcomes, n \in LiveCounts, ok \in BOOLEAN, ok2 \in BOOLEAN :
          Commit(Complete_MarketSummaryTab(outcome, n, ok, ok2), 1)
    /\ UNCHANGED <<df_combined, df_accuracy>>

Complete_ForecastDeviation ==
    /\ AtTab("Complete", 2)
    /\ \E ok \in BOOLEAN : Commit(Complete_ForecastDeviationTab(ok), 2)
    /\ df_combined' = IF Complete_Combined
                      THEN CombinedFrame(forecast_file, actual_file)
                      ELSE df_combined
    /\ UNCHANGED df_accuracy

Complete_RegulatoryAdvisory ==
    /\ AtTab("Complete", 3)
    /\ \E ok \in BOOLEAN : Commit(Complete_RegulatoryAdvisoryTab(ok), 3)
    /\ UNCHANGED <<df_combined, df_accuracy>>

Complete_TradeLog ==
    /\ AtTab("Complete", 4)
    /\ \E ok \in BOOLEAN : Commit(Complete_TradeLogTab(ok), 4)
    /\ UNCHANGED <<df_combined, df_accuracy>>

Complete_ContractClause ==
    /\ AtTab("Complete", 5)
    /\ \E ok \in BOOLEAN : Commit(Complete_ContractClauseTab(ok), 5)
    /\ UNCHANGED <<df_combined, df_accuracy>>

Complete_PriceForecast ==
    /\ AtTab("Complete", 6)
    /\ \E ok \in BOOLEAN, ok2 \in BOOLEAN : Commit(Complete_PriceForecastTab(ok, ok2), 6)
    /\ UNCHANGED <<df_combined, df_accuracy>>

Complete_EmergingRisks ==
    /\ AtTab("Complete", 7)
    /\ \E outcome \in FetchOutcomes, n \in LiveCounts, ok \in BOOLEAN, ok2 \in BOOLEAN :
          Commit(Complete_EmergingRisksTab(outcome, n, ok, ok2), 7)
    /\ UNCHANGED <<df_combined, df_accuracy>>

Complete_TradingStrategy ==
    /\ AtTab("Complete", 8)
    /\ \E ok \in BOOLEAN : Commit(Complete_TradingStrategyTab(ok), 8)
    /\ UNCHANGED <<df_combined, df_accuracy>>

---------------------------------------------------------------------------
(* main_energy_trading_assistant.py *)

Main_OverviewTab == show(Begin, "markdown", "Application Overview", <<>>)

Main_MarketSummaryTab(outcome, n, ok, ok2) ==
    LET market_df == LiveFrame(n)
        start == show(Begin, "info", "Fetching real-time market data", <<>>)
        tried == narrate(show(fetch(start, outcome), "dataframe", "market_df",
                              head(market_df, 5)),
                         "info", "market summary", ok, {}, head(market_df, 10), 0)
        shown == show(show(Caught(tried), "warning",
                           "Could not fetch live market data. Displaying simulated data.",
                           <<>>),
                      "dataframe", "fallback_df", head(Main_fallback_df, 5))
    IN  IF Raised(tried)
        THEN TryNarrate(shown, "info", "simulated market summary", ok2, {},
                        head(Main_fallback_df, 10), 0,
                        "error", "GenAI error using fallback data")
        ELSE tried

Main_Combined ==
    LET loaded == raise(LoadForecastActual(Begin), ColumnsRaise(forecast_file, actual_file))
    IN  Present(forecast_file) /\ Present(actual_file) /\ ~Raised(loaded)

Main_ForecastDeviationTab(ok) ==
    IF ~Present(forecast_file) \/ ~Present(actual_file)
    THEN show(Begin, "warning",
              "You have not uploaded Forecast and Actual Generation CSVs.", <<>>)
    ELSE LET loaded == raise(LoadForecastActual(Begin),
                             ColumnsRaise(forecast_file, actual_file))
             frame  == IF Raised(loaded) THEN <<>>
                       ELSE CombinedFrame(forecast_file, actual_file)
         IN  TryNarrate(show(loaded, "dataframe", "combined_df", head(frame, 5)),
                        "info", "forecast deviation", ok,
                        {"forecast_file", "actual_file"}, <<>>, 0,
                        "error", "Error in forecast deviation analysis")

Main_RegulatoryAdvisoryTab(ok, ok2) ==
    IF Present(regulation_file)
    THEN LET loaded  == read_csv(seek(Begin, "regulation_file"), "regulation_file")
             shown   == show(loaded, "dataframe", "regulation_df",
                             head(regulation_file.rows, 5))
             extract == narrate(shown, "info", "extract regulation table", ok,
                                {"regulation_file"}, <<>>, 0)
         IN  ExceptError(narrate(extract, "success", "regulatory advisory", ok2,
                                 {"regulation_file"}, <<>>, 0),
                         "Error analyzing regulation CSV")
    ELSE Begin

Main_TradeLogTab(ok) ==
    IF Present(trade_file)
    THEN LET loaded == read_csv(seek(Begin, "trade_file"), "trade_file")
         IN  ExceptError(narrate(show(loaded, "dataframe", "df", head(trade_file.rows, 5)),
                                 "success", "trade log", ok, {"trade_file"}, <<>>, 0),
                         "Error in trade log analysis")
    ELSE Begin

Main_ContractClauseTab(ok) ==
    IF Present(contract_file)
    THEN LET sought == seek(Begin, "contract_file")
         IN  ExceptError(narrate(read_text(sought, "contract_file"), "success",
                                 "contract clauses", ok, {"contract_file"}, <<>>,
                                 TextLen(sought, "contract_file")),
                         "Error analyzing contract")
    ELSE Begin

Main_TradingStrategyTab(ok) ==
    IF AllFour
    THEN ExceptError(StrategyBlock(Begin, "trading strategy", ok, Main_fallback_df),
                     "Error generating trading strategy")
    ELSE Begin

Main_PriceVolumeTrackerTab(outcome, n, ok, ok2) ==
    LET df_tracker == LiveFrame(n)
        start   == show(Begin, "info", "Fetching recent price/volume trend", <<>>)
        \* df_tracker.iloc[:, 1] and [:, 2]: a frame of no records has no columns
        columns == raise(fetch(start, outcome), IF n = 0 THEN "IndexError" ELSE "none")
        tried   == narrate(show(columns, "line_chart", "df_tracker", df_tracker),
                           "info", "price and volume trends", ok, {},
                           head(df_tracker, 10), 0)
        shown   == show(show(Caught(tried), "warning",
                             "Could not fetch real-time data. Showing simulated trends.",
                             <<>>),
                        "line_chart", "fallback_df", Main_tracker_fallback_df)
    IN  IF Raised(tried)
        THEN TryNarrate(shown, "info", "simulated price and volume trends", ok2, {},
                        Main_tracker_fallback_df, 0,
                        "info", "Unable to generate GenAI insights on fallback data.")
        ELSE tried

Main_Accuracy ==
    LET loaded == raise(LoadForecastActual(Begin), ColumnsRaise(forecast_file, actual_file))
    IN  Present(forecast_file) /\ Present(actual_file) /\ ~Raised(loaded)

Main_ForecastAccuracyTab(ok) ==
    LET loaded == raise(LoadForecastActual(Begin),
                        ColumnsRaise(forecast_file, actual_file))
        frame  == IF Raised(loaded) THEN <<>>
                  ELSE AccuracyFrame(forecast_file, actual_file)
        tried  == IF Present(forecast_file) /\ Present(actual_file)
                  THEN narrate(show(loaded, "dataframe", "df_accuracy", head(frame, 5)),
                               "info", "forecast accuracy", ok,
                               {"forecast_file", "actual_file"}, <<>>, 0)
                  ELSE show(Begin, "warning",
                            "Upload forecast and actual generation files.", <<>>)
    IN  IF Raised(tried)
        THEN show(show(Caught(tried), "warning",
                       "Forecast Accuracy fallback activated due to error.", <<>>),
                  "dataframe", "fallback_data", Main_fallback_data)
        ELSE tried

Main_RiskClauseFlagsTab(ok) ==
    IF Present(contract_file)
    THEN LET sought == seek(Begin, "contract_file")
         IN  TryNarrate(read_text(sought, "contract_file"), "success", "risk flags", ok,
                        {"contract_file"}, <<>>, TextLen(sought, "contract_file"),
                        "error", "Error detecting clause risks")
    ELSE show(Begin, "warning", "Upload the contract to extract risks and flags.", <<>>)

Main_ScheduleOptimizerTab(ok) ==
    IF Present(forecast_file) /\ Present(trade_file)
    THEN LET loaded == read_csv(read_csv(seek(seek(Begin, "forecast_file"), "trade_file"),
                                         "forecast_file"), "trade_file")
         IN  TryNarrate(loaded, "success", "schedule optimizer", ok,
                        {"forecast_file", "trade_file"}, <<>>, 0,
                        "error", "Error generating schedule optimization")
    ELSE show(Begin, "warning", "Please upload Forecast Demand and Trade Log CSVs.", <<>>)

Main_Overview ==
    /\ AtTab("Main", 0)
    /\ Commit(Main_OverviewTab, 0)
    /\ UNCHANGED <<df_combined, df_accuracy>>

Main_MarketSummary ==
    /\ AtTab("Main", 1)
    /\ \E outcome \in FetchOutcomes, n \in LiveCounts, ok \in BOOLEAN, ok2 \in BOOLEAN :
          Commit(Main_MarketSummaryTab(outcome, n, ok, ok2), 1)
    /\ UNCHANGED <<df_combined, df_accuracy>>

Main_ForecastDeviation ==
    /\ AtTab("Main", 2)
    /\ \E ok \in BOOLEAN : Commit(Main_ForecastDeviationTab(ok), 2)
    /\ df_combined' = IF Main_Combined
                      THEN CombinedFrame(forecast_file, actual_file)
                      ELSE df_combined
    /\ UNCHANGED df_accuracy

Main_RegulatoryAdvisory ==
    /\ AtTab("Main", 3)
    /\ \E ok \in BOOLEAN, ok2 \in BOOLEAN : Commit(Main_RegulatoryAdvisoryTab(ok, ok2), 3)
    /\ UNCHANGED <<df_combined, df_accuracy>>

Main_TradeLog ==
    /\ AtTab("Main", 4)
    /\ \E ok \in BOOLEAN : Commit(Main_TradeLogTab(ok), 4)
    /\ UNCHANGED <<df_combined, df_accuracy>>

Main_ContractClause ==
    /\ AtTab("Main", 5)
    /\ \E ok \in BOOLEAN : Commit(Main_ContractClauseTab(ok), 5)
    /\ UNCHANGED <<df_combined, df_accuracy>>

Main_TradingStrategy ==
    /\ AtTab("Main", 6)
    /\ \E ok \in BOOLEAN : Commit(Main_TradingStrategyTab(ok), 6)
    /\ UNCHANGED <<df_combined, df_accuracy>>

Main_PriceVolumeTracker ==
    /\ AtTab("Main", 7)
    /\ \E outcome \in FetchOutcomes, n \in LiveCounts, ok \in BOOLEAN, ok2 \in BOOLEAN :
          Commit(Main_PriceVolumeTrackerTab(outcome, n, ok, ok2), 7)
    /\ UNCHANGED <<df_combined, df_accuracy>>

Main_ForecastAccuracy ==
    /\ AtTab("Main", 8)
    /\ \E ok \in BOOLEAN : Commit(Main_ForecastAccuracyTab(ok), 8)
    /\ df_accuracy' = IF Main_Accuracy
                      THEN AccuracyFrame(forecast_file, actual_file)
                      ELSE df_accuracy
    /\ UNCHANGED df_combined

Main_RiskClauseFlags ==
    /\ AtTab("Main", 9)
    /\ \E ok \in BOOLEAN : Commit(Main_RiskClauseFlagsTab(ok), 9)
    /\ UNCHANGED <<df_combined, df_accuracy>>

Main_ScheduleOptimizer ==
    /\ AtTab("Main", 10)
    /\ \E ok \in BOOLEAN : Commit(Main_ScheduleOptimizerTab(ok), 10)
    /\ UNCHANGED <<df_combined, df_accuracy>>

---------------------------------------------------------------------------
(* A run: the uploads of the sidebar, then the tabs in order *)

ForecastUploads ==
    {NoFile, EmptyBytes,
     Csv(3, <<>>),
     Csv(3, <<<<Date, "North", 100>>>>),
     Csv(3, <<<<Date, "North", 100>>, <<Date, "South", 0>>>>),
     Csv(2, <<<<Date, "North">>>>)}

ActualUploads ==
    {NoFile, EmptyBytes,
     Csv(3, <<>>),
     Csv(3, <<<<Date, "North", 90>>>>),
     Csv(2, <<<<Date, 90>>, <<Date, 100>>>>),
     Csv(1, <<<<Date>>>>)}

OtherCsvUploads ==
    {NoFile, EmptyBytes, Csv(3, <<>>), Csv(3, <<<<Date, "North", 100>>>>)}

ContractUploads == {NoFile, BadText, Text(500), Text(1500)}

Init ==
    /\ script \in {"Complete", "Main"}
    /\ forecast_file \in ForecastUploads
    /\ actual_file \in ActualUploads
    /\ regulation_file \in OtherCsvUploads
    /\ trade_file \in OtherCsvUploads
    /\ contract_file \in ContractUploads
    /\ stream = FreshStreams
    /\ pc = 0
    /\ log = <<>>
    /\ exc = "none"
    /\ df_combined = <<>>
    /\ df_accuracy = <<>>

Next ==
    \/ Complete_Overview
    \/ Complete_MarketSummary
    \/ Complete_ForecastDeviation
    \/ Complete_RegulatoryAdvisory
    \/ Complete_TradeLog
    \/ Complete_ContractClause
    \/ Complete_PriceForecast
    \/ Complete_EmergingRisks
    \/ Complete_TradingStrategy
    \/ Main_Overview
    \/ Main_MarketSummary
    \/ Main_ForecastDeviation
    \/ Main_RegulatoryAdvisory
    \/ Main_TradeLog
    \/ Main_ContractClause
    \/ Main_TradingStrategy
    \/ Main_PriceVolumeTracker
    \/ Main_ForecastAccuracy
    \/ Main_RiskClauseFlags
    \/ Main_ScheduleOptimizer

Spec == Init /\ [][Next]_vars

---------------------------------------------------------------------------
(* The forecast/actual computations on their own, over all small tables *)

ForecastRows == {<<Date, r, v>> : r \in Regions, v \in Values}

ActualRows3 == {<<Date, "North", v>> : v \in Values}

ActualRows2 == {<<Date, v>> : v \in Values}

DevForecasts ==
    {Csv(3, r) : r \in SeqsUpTo(ForecastRows, MaxRows)} \cup {Csv(2, <<<<Date, "North">>>>)}

DevActuals ==
    {Csv(3, r) : r \in SeqsUpTo(ActualRows3, MaxRows)}
        \cup {Csv(2, r) : r \in SeqsUpTo(ActualRows2, MaxRows)}
        \cup {Csv(1, <<<<Date>>>>)}

DevInit ==
    /\ script = "Dev"
    /\ forecast_file \in DevForecasts
    /\ actual_file \in DevActuals
    /\ regulation_file = NoFile
    /\ trade_file = NoFile
    /\ contract_file = NoFile
    /\ stream = FreshStreams
    /\ pc = 0
    /\ log = <<>>
    /\ exc = "none"
    /\ df_combined = <<>>
    /\ df_accuracy = <<>>

\* the combined frame of Forecast Deviation from the two parsed frames
Dev_ForecastDeviation ==
    /\ script = "Dev"
    /\ pc = 0
    /\ exc' = ColumnsRaise(forecast_file, actual_file)
    /\ df_combined' = IF exc' = "none"
                      THEN CombinedFrame(forecast_file, actual_file)
                      ELSE df_combined
    /\ pc' = 1
    /\ UNCHANGED <<script, uploads, stream, log, df_accuracy>>

\* the accuracy frame of Forecast Accuracy from the two parsed frames
Dev_ForecastAccuracy ==
    /\ script = "Dev"
    /\ pc = 1
    /\ exc' = ColumnsRaise(forecast_file, actual_file)
    /\ df_accuracy' = IF exc' = "none"
                      THEN AccuracyFrame(forecast_file, actual_file)
                      ELSE df_accuracy
    /\ pc' = 2
    /\ UNCHANGED <<script, uploads, stream, log, df_combined>>

DevNext == Dev_ForecastDeviation \/ Dev_ForecastAccuracy

SpecDev == DevInit /\ [][DevNext]_vars

---------------------------------------------------------------------------
(* Properties of the forecast/actual computations (under SpecDev) *)

\* both computations have run on the two frames
DevDone == script = "Dev" /\ pc = 2

\* a forecast frame with date, region and value columns, an actual frame with a value column
WellFormed == forecast_file.ncols >= 3 /\ actual_file.ncols >= 2

nForecast == Len(forecast_file.rows)

nActual == Len(actual_file.rows)

\* the values the claims speak of, read off the uploaded rows
ForecastValue(i) == forecast_file.rows[i][3]

ActualValue(i) ==
    IF actual_file.ncols <= 2 THEN actual_file.rows[i][2] ELSE actual_file.rows[i][3]

\* rows of the frames: the forecast's, or the actual's when the forecast has none
AlignedRows == IF nForecast > 0 THEN nForecast ELSE nActual

\* C5 as stated: with different row counts both frames have min(rows) rows
\* and no error is raised.
C5_MinRows ==
    (DevDone /\ WellFormed /\ nForecast # nActual) =>
        /\ exc = "none"
        /\ Len(df_combined) = Min(nForecast, nActual)
        /\ Len(df_accuracy) = Min(nForecast, nActual)

\* C5 amended: with different row counts no error is raised and both frames have
\* as many rows as the forecast table (as the actual table when the forecast
\* table has no rows); actual rows beyond that are dropped, and rows without
\* a matching actual row are kept with a missing actual value.
C5_ForecastRows ==
    (DevDone /\ WellFormed /\ nForecast # nActual) =>
        /\ exc = "none"
        /\ Len(df_combined) = AlignedRows
        /\ Len(df_accuracy) = AlignedRows
        /\ \A i \in 1..AlignedRows :
              /\ df_combined[i].Actual.isna = (i > nActual)
              /\ df_accuracy[i].Actual.isna = (i > nActual)
              /\ i <= nActual => /\ df_combined[i].Actual.v = ActualValue(i)
                                 /\ df_accuracy[i].Actual.v = ActualValue(i)

C5_Witness ==
    /\ DevDone /\ WellFormed
    /\ nForecast = 2 /\ nActual = 1
    /\ Len(df_combined) = 2
    /\ df_accuracy[2].Actual.isna

\* C6: with the same number n of rows both frames have n rows, row i carries
\* forecast column 2 and the actual value column (2, or 1 for at most 2 columns),
\* and its error is (actual - forecast) * 100 over the forecast value.
C6_EqualLength ==
    (DevDone /\ WellFormed /\ nForecast = nActual) =>
        /\ exc = "none"
        /\ Len(df_combined) = nForecast
        /\ Len(df_accuracy) = nForecast
        /\ \A i \in 1..nForecast :
              /\ df_combined[i].c2 = Cell(ForecastValue(i))
              /\ df_combined[i].Actual = Cell(ActualValue(i))
              /\ df_accuracy[i].Forecast = Cell(ForecastValue(i))
              /\ df_accuracy[i].Actual = Cell(ActualValue(i))
              /\ ForecastValue(i) # 0 =>
                    /\ df_accuracy[i].Error.k = "num"
                    /\ df_accuracy[i].Error.n * ForecastValue(i)
                         = (ActualValue(i) - ForecastValue(i)) * 100 * df_accuracy[i].Error.d

C6_Witness ==
    /\ DevDone /\ WellFormed
    /\ nForecast = 2 /\ nActual = 2
    /\ actual_file.ncols = 2
    /\ Len(df_accuracy) = 2
    /\ ForecastValue(1) = 100 /\ ActualValue(1) = 90
    /\ df_accuracy[1].Error.k = "num"

\* C7: a row whose denominator (the forecast value) is 0 gets a sentinel, no
\* error is raised, and every other row of the table gets its number.
C7_ZeroDenominator ==
    (DevDone /\ WellFormed) =>
        /\ exc = "none"
        /\ \A i \in 1..Len(df_accuracy) :
              LET row == df_accuracy[i]
              IN  /\ (~row.Forecast.isna /\ row.Forecast.v = 0) =>
                        row.Error.k \in {"nan", "inf", "-inf"}
                  /\ (~row.Forecast.isna /\ ~row.Actual.isna /\ row.Forecast.v # 0) =>
                        /\ row.Error.k = "num"
                        /\ row.Error.d # 0
                        /\ row.Error.n * row.Forecast.v
                             = (row.Actual.v - row.Forecast.v) * 100 * row.Error.d

C7_Witness ==
    /\ DevDone /\ WellFormed
    /\ Len(df_accuracy) = 2
    /\ df_accuracy[1].Forecast = Cell(0)
    /\ df_accuracy[1].Error.k = "-inf" \/ df_accuracy[1].Error.k = "inf"
    /\ df_accuracy[2].Error.k = "num"

\* the scenario of C8: one forecast row of 100 MW, one actual row of 90 MW
C8_Scenario ==
    /\ DevDone
    /\ forecast_file = Csv(3, <<<<Date, "North", 100>>>>)
    /\ actual_file = Csv(3, <<<<Date, "North", 90>>>>)

\* C8 as stated: a single row with difference -10 and percent error
\* -10/90*100 (the denominator is the actual value).
C8_OverActual ==
    C8_Scenario =>
        /\ Len(df_accuracy) = 1
        /\ df_accuracy[1].Actual.v - df_accuracy[1].Forecast.v = -10
        /\ df_accuracy[1].Error.k = "num"
        /\ df_accuracy[1].Error.n * 90 = (-10) * 100 * df_accuracy[1].Error.d

\* C8 amended: a single row with difference -10 and percent error
\* -10/100*100 = -10 (the denominator is the forecast value).
C8_OverForecast ==
    C8_Scenario =>
        /\ Len(df_accuracy) = 1
        /\ df_accuracy[1].Actual.v - df_accuracy[1].Forecast.v = -10
        /\ df_accuracy[1].Error.k = "num"
        /\ df_accuracy[1].Error.n * 100 = (-10) * 100 * df_accuracy[1].Error.d
        /\ df_accuracy[1].Error.n = (-10) * df_accuracy[1].Error.d

C8_Witness == C8_Scenario /\ Len(df_accuracy) = 1 /\ df_accuracy[1].Error.k = "num"

---------------------------------------------------------------------------
(* Properties of a run (under Spec); `log` and `exc` are those of the tab  *)
(* executed last, tab pc - 1                                               *)

Running == script \in {"Complete", "Main"}

\* the tab executed last is tab k of script s
Ran(s, k) == script = s /\ pc = k + 1

Idx == 1..Len(log)

IsRequest(i) == log[i].e = "request"

IsShow(i) == log[i].e = "show"

\* a message shown to the user that is not a narrative
IsMessage(i) ==
    /\ IsShow(i)
    /\ log[i].w \in {"error", "warning", "info"}
    /\ log[i].msg # "narrative"

FetchSucceeded == \E i \in Idx : log[i].e = "fetch" /\ log[i].ok

FetchFailed == \E i \in Idx : log[i].e = "fetch" /\ ~log[i].ok

\* C1 as stated: a failed narrative request is followed by an inline message
\* and leaves no exception behind, in every tab of both scripts.
C1_NarrativeFailureInline ==
    Running =>
        \A i \in Idx :
            (IsRequest(i) /\ ~log[i].ok) =>
                /\ exc = "none"
                /\ \E j \in Idx : j > i /\ IsMessage(j)

\* C2 as stated: no failure is fatal; an exception never leaves a tab that
\* has tabs below it.
C2_NoFailureFatal ==
    (Running /\ exc # "none") => pc = NumTabs(script)

\* the regions the scripts' fallback market tables are to hold
ExpectedRegions ==
    IF script = "Complete"
    THEN <<"North", "South", "East", "West">>
    ELSE <<"North", "South", "East", "West", "Midlands", "Scotland", "Wales", "London">>

RegionsOf(rows) == [i \in 1..Len(rows) |-> rows[i].Region]

MarketSummaryRan == Ran("Complete", 1) \/ Ran("Main", 1)

\* C3 as stated: after a failed fetch Market Summary displays and forwards
\* exactly the fallback record set, none omitted.
C3_FallbackShownWhole ==
    (MarketSummaryRan /\ FetchFailed) =>
        /\ \E i \in Idx : /\ IsShow(i) /\ log[i].msg = "fallback_df"
                          /\ RegionsOf(log[i].rows) = ExpectedRegions
        /\ \E i \in Idx : /\ IsRequest(i)
                          /\ RegionsOf(log[i].rows) = ExpectedRegions

\* C3 amended: after a failed fetch Market Summary forwards exactly the
\* fallback record set (4 regions in Complete, 8 in Main), and displays all 4
\* in Complete and the first 5 of the 8 in Main.
C3_FallbackForwardedWhole ==
    (MarketSummaryRan /\ FetchFailed) =>
        /\ \E i \in Idx : /\ IsShow(i) /\ log[i].msg = "fallback_df"
                          /\ RegionsOf(log[i].rows) = SubSeq(ExpectedRegions, 1,
                                IF script = "Complete" THEN 4 ELSE 5)
        /\ \E i \in Idx : /\ IsRequest(i)
                          /\ RegionsOf(log[i].rows) = ExpectedRegions
                          /\ Len(log[i].rows) = IF script = "Complete" THEN 4 ELSE 8
        /\ \A i \in Idx : IsRequest(i) => RegionsOf(log[i].rows) = ExpectedRegions

C3_Witness ==
    /\ Ran("Main", 1) /\ FetchFailed
    /\ \E i \in Idx : IsRequest(i) /\ Len(log[i].rows) = 8
    /\ \E i \in Idx : IsShow(i) /\ log[i].msg = "fallback_df" /\ Len(log[i].rows) = 5

\* the fallback table or the could-not-fetch warning of a fetching tab
IsFallbackShown(i) ==
    /\ IsShow(i)
    /\ log[i].msg \in
          {"fallback_df",
           "Could not fetch live market data. Displaying simulated fallback.",
           "Could not fetch live market data. Displaying simulated data.",
           "Live API failed. Showing simulated risks.",
           "Could not fetch real-time data. Showing simulated trends."}

\* C4 as stated: in the tabs that fetch the market feed, the fallback table
\* and its warning appear only when the fetch itself failed.
C4_FallbackOnlyOnFetchFailure ==
    (Running /\ FetchSucceeded) => \A i \in Idx : ~IsFallbackShown(i)

\* a read of a CSV upload in the log
IsCsvRead(i) == log[i].e = "read" /\ log[i].f # "contract_file"

ZeroRows(f) == Content(f).kind = "empty" \/ (Content(f).kind = "csv" /\ Content(f).rows = <<>>)

\* nothing downstream follows event i: no table shown, no request issued
NothingAfter(i) ==
    \A j \in Idx : j > i => ~IsRequest(j) /\ ~(IsShow(j) /\ log[j].w = "dataframe"
                                               /\ log[j].msg # "fallback_data")

C10_SeekBeforeRead ==
    Running =>
        \A f \in FileNames :
            LET ops == stream[f].ops
            IN  \A i \in 1..Len(ops) :
                    ops[i] # "seek" => /\ ops[i] = "read"
                                       /\ i > 1
                                       /\ ops[i - 1] = "seek"

\* the forecast upload has been read by four tabs of one run
C10_Witness ==
    /\ script = "Main"
    /\ pc = NumTabs("Main")
    /\ Len(stream["forecast_file"].ops) = 8
    /\ Len(stream["contract_file"].ops) = 6

\* C11 as stated: every request that embeds the contract text embeds at most
\* a fixed budget of its characters (1000), in every tab of both scripts.
C11_ContractTruncated ==
    Running =>
        \A i \in Idx :
            (IsRequest(i) /\ "contract_file" \in log[i].embeds) => log[i].chars <= 1000

\* the tabs that use the market feed
FeedTabRan ==
    \/ Ran("Complete", 1) \/ Ran("Complete", 7)
    \/ Ran("Main", 1) \/ Ran("Main", 7)

IsFetch(i) == log[i].e = "fetch"

\* C12: a tab that uses the market feed makes exactly one fetch attempt; a
\* failed fetch is not retried, the fallback warning follows it directly;
\* no other tab fetches.
C12_SingleFetch ==
    Running =>
        /\ FeedTabRan => Cardinality({i \in Idx : IsFetch(i)}) = 1
        /\ (pc > 0 /\ ~FeedTabRan) => \A i \in Idx : ~IsFetch(i)
        /\ \A i \in Idx :
              (IsFetch(i) /\ ~log[i].ok) =>
                  /\ i < Len(log)
                  /\ IsFallbackShown(i + 1)
                  /\ log[i + 1].w = "warning"

C12_Witness ==
    /\ Ran("Complete", 7)
    /\ FetchFailed
    /\ \E i \in Idx : IsShow(i) /\ log[i].msg = "Live API failed. Showing simulated risks."

\* the uploads tab k of script s asks for
Requires(s, k) ==
    IF s = "Complete"
    THEN CASE k = 2 -> {"forecast_file", "actual_file"}
           [] k = 3 -> {"regulation_file"}
           [] k = 4 -> {"trade_file"}
           [] k = 5 -> {"contract_file"}
           [] k = 6 -> {"forecast_file"}
           [] k = 8 -> StrategyEmbeds
           [] OTHER -> {}
    ELSE CASE k = 2 -> {"forecast_file", "actual_file"}
           [] k = 3 -> {"regulation_file"}
           [] k = 4 -> {"trade_file"}
           [] k = 5 -> {"contract_file"}
           [] k = 6 -> StrategyEmbeds
           [] k = 8 -> {"forecast_file", "actual_file"}
           [] k = 9 -> {"contract_file"}
           [] k = 10 -> {"forecast_file", "trade_file"}
           [] OTHER -> {}

\* C13 as stated: a tab whose required upload is missing does not fail and
\* shows a message prompting the upload.
C13_PromptToUpload ==
    (Running /\ pc > 0 /\ \E f \in Requires(script, pc - 1) : ~Present(Content(f))) =>
        /\ exc = "none"
        /\ \E i \in Idx : IsShow(i) /\ log[i].w = "warning"

\* C15: a tab seeks or reads an upload, or issues a request that embeds it,
\* only if the upload is present; the Trading Strategy requests are issued
\* only with all four uploads present, the Schedule Optimizer request only
\* with forecast and trade log present.
C15_OnlyPresentFiles ==
    Running =>
        \A i \in Idx :
            /\ log[i].e \in {"seek", "read"} => Present(Content(log[i].f))
            /\ IsRequest(i) =>
                  /\ \A f \in log[i].embeds : Present(Content(f))
                  /\ log[i].msg \in {"trading strategy", "strategist"} =>
                        /\ Present(forecast_file) /\ Present(actual_file)
                        /\ Present(trade_file) /\ Present(contract_file)
                        /\ log[i].embeds = FileNames \ {"regulation_file"}
                  /\ log[i].msg = "schedule optimizer" =>
                        /\ Present(forecast_file) /\ Present(trade_file)
                        /\ log[i].embeds = {"forecast_file", "trade_file"}

C15_Witness ==
    /\ Ran("Main", 6)
    /\ ~Present(regulation_file)
    /\ \E i \in Idx : IsRequest(i) /\ log[i].msg = "trading strategy" /\ log[i].ok

UploadWarning(i) ==
    IsShow(i) /\ log[i].msg = "Upload both forecast and actual files."

\* C17: in Complete's Market Summary the warning 'Upload both forecast and
\* actual files.' is shown exactly when the fetch and its request both
\* succeeded, whatever is uploaded, and never on the fallback path.
C17_WarningOnElse ==
    Ran("Complete", 1) =>
        /\ (\E i \in Idx : UploadWarning(i))
              <=> (FetchSucceeded /\ \A i \in Idx : IsRequest(i) => log[i].ok)
        /\ (\E i \in Idx : UploadWarning(i)) => \A i \in Idx : ~IsFallbackShown(i)
        /\ (\E i \in Idx : IsFallbackShown(i)) => \A i \in Idx : ~UploadWarning(i)

C17_Witness ==
    /\ Ran("Complete", 1)
    /\ Present(forecast_file) /\ Present(actual_file)
    /\ \E i \in Idx : UploadWarning(i)

\* C14: the rows of the combined frames keep the order of the forecast table:
\* row i carries the date, region and forecast value of forecast row i.
C14_ForecastOrder ==
    (DevDone /\ WellFormed) =>
        /\ Len(df_combined) >= nForecast
        /\ Len(df_accuracy) >= nForecast
        /\ \A i \in 1..nForecast :
              /\ df_combined[i].c0 = Cell(forecast_file.rows[i][1])
              /\ df_combined[i].c1 = Cell(forecast_file.rows[i][2])
              /\ df_combined[i].c2 = Cell(forecast_file.rows[i][3])
              /\ df_accuracy[i].Region = Cell(forecast_file.rows[i][2])
              /\ df_accuracy[i].Forecast = Cell(forecast_file.rows[i][3])

C14_Witness ==
    /\ DevDone /\ WellFormed
    /\ nForecast = 2
    /\ forecast_file.rows[1] = <<Date, "South", 100>>
    /\ forecast_file.rows[2] = <<Date, "North", 0>>
    /\ df_combined[1].c1 = Cell("South")
    /\ df_accuracy[2].Region = Cell("North")

\* a step of Forecast Accuracy's try block fails: a parse, a column access,
\* or the narrative request
AccuracyStepFailed ==
    \/ forecast_file.kind # "csv"
    \/ actual_file.kind # "csv"
    \/ forecast_file.ncols < 3
    \/ actual_file.ncols < 2
    \/ \E i \in Idx : IsRequest(i) /\ ~log[i].ok

\* the table Forecast Accuracy is to fall back to
ExpectedFallbackData ==
    <<[Region |-> "North", Forecast |-> 1200, Actual |-> 1150],
      [Region |-> "South", Forecast |-> 1400, Actual |-> 1450],
      [Region |-> "East",  Forecast |-> 1300, Actual |-> 1280],
      [Region |-> "West",  Forecast |-> 1250, Actual |-> 1230]>>

\* rows is that table, each row with Error (%) = (Actual - Forecast) / Forecast * 100
IsExpectedFallback(rows) ==
    /\ Len(rows) = 4
    /\ \A r \in 1..4 :
          LET x == ExpectedFallbackData[r]
          IN  /\ rows[r].Region = Cell(x.Region)
              /\ rows[r].Forecast = Cell(x.Forecast)
              /\ rows[r].Actual = Cell(x.Actual)
              /\ rows[r].Error.k = "num"
              /\ rows[r].Error.d # 0
              /\ rows[r].Error.n * x.Forecast
                   = (x.Actual - x.Forecast) * 100 * rows[r].Error.d

====
